---- MODULE Spec2Model ----
(***************************************************************************)
(* A model of yledl/downloader.py: YleDlDownloader's flavor selection      *)
(* (select_flavor and its two filters), the retry loop try_all_streams     *)
(* and the playlist loop process.                                          *)
(***************************************************************************)
EXTENDS Integers, Sequences, FiniteSets, TLC

(***************************************************************************)
(* Bounds of the model.                                                    *)
(***************************************************************************)
MaxFlavors == 2
MaxHeight == 2
MaxBitrate == 2
MaxPlaylist == 3

MaxStreams == 3

(***************************************************************************)
(* Values.                                                                 *)
(***************************************************************************)
\* Python's None for an optional integer (height, bitrate, maxheight,
\* maxbitrate): a value outside the naturals.
None == -1

RD_SUCCESS == "RD_SUCCESS"
RD_INCOMPLETE == "RD_INCOMPLETE"
RD_FAILED == "RD_FAILED"
RD_SUBPROCESS_EXECUTE_FAILED == "RD_SUBPROCESS_EXECUTE_FAILED"

ResultCodes == {RD_SUCCESS, RD_INCOMPLETE, RD_FAILED, RD_SUBPROCESS_EXECUTE_FAILED}

\* A diagnostic message: its text and, for 'Required backend not enabled',
\* the backends it lists.
Msg(text, backends) == [text |-> text, backends |-> backends]

NoMsg == Msg("", {})

\* A stream handle (a downloader): backend name, validity, error message.
Stream(name, valid, error_message) ==
    [name |-> name, valid |-> valid, error_message |-> error_message]

is_valid(s) == s.valid

\* A flavor: optional height and bitrate and its streams.
Flavor(height, bitrate, streams) ==
    [height |-> height, bitrate |-> bitrate, streams |-> streams, kind |-> "flavor"]

\* FailedFlavor(msg): a flavor without dimensions whose only stream is invalid
\* and carries the message.
FailedFlavor(msg) ==
    [height |-> None, bitrate |-> None,
     streams |-> <<Stream("failed", FALSE, msg)>>, kind |-> "failed"]

\* select_flavor's None result.
NoFlavor == [height |-> None, bitrate |-> None, streams |-> <<>>, kind |-> "none"]

\* StreamFilters: maxheight, maxbitrate, enabled_backends.
Filters(maxheight, maxbitrate, enabled_backends) ==
    [maxheight |-> maxheight, maxbitrate |-> maxbitrate,
     enabled_backends |-> enabled_backends]

\* Python's `x or 0` on an optional integer.
OrZero(x) == IF x = None THEN 0 ELSE x

(***************************************************************************)
(* Sequence helpers.                                                       *)
(***************************************************************************)
RECURSIVE Flatten(_)
Flatten(ss) == IF ss = <<>> THEN <<>> ELSE Head(ss) \o Flatten(Tail(ss))

Range(s) == {s[i] : i \in 1..Len(s)}

\* Lexicographic order on integer tuples of equal length.
RECURSIVE LexLess(_, _)
LexLess(k1, k2) ==
    IF k1 = <<>> THEN FALSE
    ELSE IF Head(k1) < Head(k2) THEN TRUE
    ELSE IF Head(k1) > Head(k2) THEN FALSE
    ELSE LexLess(Tail(k1), Tail(k2))

(***************************************************************************)
(* apply_backend_filter                                                    *)
(***************************************************************************)
\* filter_streams_by_backend: for each enabled backend in order, the flavor's
\* streams of that backend in the flavor's order; a copy of the flavor with
\* these streams.
RECURSIVE StreamsByBackends(_, _)
StreamsByBackends(backends, streams) ==
    IF backends = <<>> THEN <<>>
    ELSE SelectSeq(streams, LAMBDA d : d.name = Head(backends))
         \o StreamsByBackends(Tail(backends), streams)

\* A variant of filter_streams_by_backend: the enabled backends' streams
\* in the flavor's own order.
filter_streams_unsorted(flavor, filters) ==
    [flavor EXCEPT !.streams = SelectSeq(flavor.streams,
                                  LAMBDA d : d.name \in Range(filters.enabled_backends))]

filter_streams_by_backend(flavor, filters) ==
    [flavor EXCEPT !.streams = StreamsByBackends(filters.enabled_backends, flavor.streams)]

\* backend_not_enabled_flavor: the failure flavor and its message.
supported_backends(flavors) ==
    {s.name : s \in {t \in UNION {Range(fl.streams) : fl \in Range(flavors)} : is_valid(t)}}

error_messages(flavors) ==
    Flatten([i \in 1..Len(flavors) |->
        LET invalid == SelectSeq(flavors[i].streams, LAMBDA s : ~is_valid(s))
        IN [j \in 1..Len(invalid) |-> invalid[j].error_message]])

\* A variant of backend_not_enabled_flavor: an error message comes before
\* the backends that would have worked.
backend_not_enabled_error_first(flavors) ==
    IF error_messages(flavors) # <<>>
    THEN FailedFlavor(error_messages(flavors)[1])
    ELSE IF supported_backends(flavors) # {}
    THEN FailedFlavor(Msg("Required backend not enabled", supported_backends(flavors)))
    ELSE FailedFlavor(Msg("Stream not found", {}))

backend_not_enabled_flavor(flavors) ==
    IF supported_backends(flavors) # {}
    THEN FailedFlavor(Msg("Required backend not enabled", supported_backends(flavors)))
    ELSE IF error_messages(flavors) # <<>>
    THEN FailedFlavor(error_messages(flavors)[1])
    ELSE FailedFlavor(Msg("Stream not found", {}))

apply_backend_filter(flavors, filters) ==
    IF flavors = <<>> THEN <<>>
    ELSE LET mapped == [i \in 1..Len(flavors) |->
                            filter_streams_by_backend(flavors[i], filters)]
             filtered == SelectSeq(mapped, LAMBDA fl : fl.streams # <<>>)
         IN IF filtered # <<>> THEN filtered
            ELSE <<backend_not_enabled_flavor(flavors)>>

(***************************************************************************)
(* The flavors as objects: apply_backend_filter assigns to the streams     *)
(* field of a copy, and the heap, a sequence of objects addressed by       *)
(* position, tells what the caller's flavors are after the call.           *)
(***************************************************************************)
\* A variant of copy: no new object, the flavor itself.
alias(heap, ref) == [heap |-> heap, ref |-> ref]

\* copy.copy(flavor): a new object with the fields of the flavor at ref.
copy(heap, ref) == [heap |-> Append(heap, heap[ref]), ref |-> Len(heap) + 1]

\* filter_streams_by_backend on the flavor at ref: the heap afterwards.
filter_streams_in_heap(heap, ref, filters) ==
    LET sorted_streams == StreamsByBackends(filters.enabled_backends, heap[ref].streams)
        res == copy(heap, ref)
    IN [res.heap EXCEPT ![res.ref].streams = sorted_streams]

\* [filter_streams_by_backend(fl) for fl in flavors] from the n-th flavor on.
RECURSIVE filter_all_in_heap(_, _, _, _)
filter_all_in_heap(heap, n, count, filters) ==
    IF n > count THEN heap
    ELSE filter_all_in_heap(filter_streams_in_heap(heap, n, filters), n + 1, count, filters)

\* The caller's flavors after select_streams(flavors, filters): the first
\* Len(flavors) objects of the heap. Nothing else in the call assigns to a
\* field; sorted() and the comprehensions build new lists.
flavors_after_select(fs, filters) ==
    IF fs = <<>> THEN fs
    ELSE SubSeq(filter_all_in_heap(fs, 1, Len(fs), filters), 1, Len(fs))

(***************************************************************************)
(* apply_resolution_filters                                                *)
(***************************************************************************)
\* A variant of sort_max_bitrate: the sign of the key flipped.
sort_min_bitrate(x) == <<-OrZero(x.bitrate)>>

sort_max_bitrate(x) == <<OrZero(x.bitrate)>>

\* A variant of sort_max_resolution_min_bitrate: the bitrate not negated.
sort_max_resolution_plain_bitrate(x) == <<OrZero(x.height), OrZero(x.bitrate)>>

sort_max_resolution_min_bitrate(x) == <<OrZero(x.height), -OrZero(x.bitrate)>>

\* A variant of sort_max_resolution_max_bitrate: the bitrate negated.
sort_max_resolution_neg_bitrate(x) == <<OrZero(x.height), -OrZero(x.bitrate)>>

sort_max_resolution_max_bitrate(x) == <<OrZero(x.height), OrZero(x.bitrate)>>

\* The key function apply_resolution_filters picks for the filters.
keyfunc(x, filters) ==
    IF filters.maxheight # None /\ filters.maxbitrate # None
    THEN sort_max_resolution_max_bitrate(x)
    ELSE IF filters.maxheight # None
    THEN sort_max_resolution_min_bitrate(x)
    ELSE sort_max_bitrate(x)

\* Python's sorted(list, key, reverse): a stable sort; with reverse the order
\* is descending and elements of equal key still keep their original order.
\* InsertSorted puts x after every element that does not come after it.
RECURSIVE InsertSorted(_, _, _, _)
InsertSorted(x, s, filters, reverse) ==
    IF s = <<>> THEN <<x>>
    ELSE LET before == IF reverse
                       THEN LexLess(keyfunc(Head(s), filters), keyfunc(x, filters))
                       ELSE LexLess(keyfunc(x, filters), keyfunc(Head(s), filters))
         IN IF before THEN <<x>> \o s
            ELSE <<Head(s)>> \o InsertSorted(x, Tail(s), filters, reverse)

RECURSIVE sorted(_, _, _)
sorted(s, filters, reverse) ==
    IF s = <<>> THEN <<>>
    ELSE InsertSorted(s[Len(s)], sorted(SubSeq(s, 1, Len(s) - 1), filters, reverse),
                      filters, reverse)

\* A variant of within_limits: the height ceiling forgotten.
within_bitrate_limit_only(fl, filters) ==
    filters.maxbitrate = None \/ OrZero(fl.bitrate) <= filters.maxbitrate

\* The flavors within both ceilings (an unset ceiling admits everything).
within_limits(fl, filters) ==
    /\ (filters.maxbitrate = None \/ OrZero(fl.bitrate) <= filters.maxbitrate)
    /\ (filters.maxheight = None \/ OrZero(fl.height) <= filters.maxheight)

\* A variant of apply_resolution_filters: the fallback order never reversed.
apply_resolution_filters_no_reverse(flavors, filters) ==
    LET filtered == SelectSeq(flavors, LAMBDA fl : within_limits(fl, filters))
        acceptable_flavors == IF filtered # <<>> THEN filtered ELSE flavors
    IN sorted(acceptable_flavors, filters, FALSE)

apply_resolution_filters(flavors, filters) ==
    LET filtered == SelectSeq(flavors, LAMBDA fl : within_limits(fl, filters))
        acceptable_flavors == IF filtered # <<>> THEN filtered ELSE flavors
        reverse == IF filtered # <<>> THEN FALSE
                   ELSE filters.maxheight # None \/ filters.maxbitrate # None
    IN sorted(acceptable_flavors, filters, reverse)

(***************************************************************************)
(* select_flavor, select_streams                                           *)
(***************************************************************************)
select_flavor(flavors, filters) ==
    IF flavors = <<>> THEN NoFlavor
    ELSE LET filtered == apply_resolution_filters(
                             apply_backend_filter(flavors, filters), filters)
         IN IF filtered # <<>> THEN filtered[Len(filtered)] ELSE NoFlavor

\* select_streams returns None or a list: isNone tells them apart.
NoneStreams == [isNone |-> TRUE, list |-> <<>>]

select_streams(flavors, filters) ==
    LET flavor == select_flavor(flavors, filters)
    IN IF flavor.kind # "none" THEN [isNone |-> FALSE, list |-> flavor.streams]
       ELSE NoneStreams

(***************************************************************************)
(* Result codes and the retry predicates of the two modes.                 *)
(***************************************************************************)
\* download_clips.needs_retry
needs_retry_save(res) == res \notin {RD_SUCCESS, RD_INCOMPLETE}

\* pipe.needs_retry
needs_retry_pipe(res) == res = RD_SUBPROCESS_EXECUTE_FAILED

needs_retry(m, res) ==
    IF m = "save" THEN needs_retry_save(res) ELSE needs_retry_pipe(res)

\* to_external_rd_code: the mapping of exitcodes.py, kept opaque; a returned
\* value records its code and whether it went through the mapping.
to_external_rd_code(code) == [code |-> code, external |-> TRUE]

Internal(code) == [code |-> code, external |-> FALSE]

\* The file extensions downloader.file_extension(io.preferred_format) may give.
Extensions == {".flv", ".mp4"}

\* output_file = None: no output artifact.
NoFile == <<0, "">>

\* generate_output_name: the path the name generator makes of the clip's
\* title and the extension of the stream's downloader.
OutputPath(i, extension) == <<i, extension>>

\* The exception a statement of the call raised, which ends the call.
Raised(exception) == [code |-> exception, external |-> FALSE]

\* A line of the error log: its text and the message it quotes.
Diag(text, detail) == [text |-> text, detail |-> detail]

\* Calls made by try_all_streams, in order.
TransferEvent(stream, res, file) ==
    [res |-> res, stream |-> stream, file |-> file, ev |-> "streamfunc"]

RemoveEvent(file) == [res |-> "", stream |-> 0, file |-> file, ev |-> "remove_retry_file"]

\* What process did with one playlist item: kind is "no_stream",
\* "unsupported" or "tried"; res is the item's outcome.
Outcome(kind, res) == [kind |-> kind, res |-> res]

(***************************************************************************)
(* State.                                                                  *)
(***************************************************************************)
VARIABLES
    filters,        \* the caller's StreamFilters
    flavors,        \* the flavor list handed to select_flavor / select_streams
    selected,       \* select_flavor's result for flavors and filters
    pc,             \* the position of the running call
    mode,           \* "save" (download_clips) or "pipe"
    io,             \* the IOContext fields read: outputfilename set, overwrite,
                    \* slicing active
    constant_pattern, \* extractor.title_formatter.is_constant_pattern()
    playlist,       \* the playlist of clip urls
    item,           \* index of the playlist item the loop of process is at
    overall_status, \* process: overall_status
    streams,        \* process: streams, select_streams's result for the item
    sidx,           \* try_all_streams: index of the stream the loop is at
    latest_result,  \* try_all_streams: latest_result
    output_file,    \* try_all_streams: output_file
    exists,         \* the extensions whose output path of the item exists on disk
    attempts,       \* the calls try_all_streams made for the current item
    outcomes,       \* what became of each item handled so far
    diag,           \* lines logged with logger.error
    ret,            \* the value returned by the call
    urls,           \* get_urls: the values yielded so far
    existed,        \* exists as it was before the item's first attempt
    saved,          \* whether a save_stream call for the item returned RD_SUCCESS
    resolved        \* the playlist as get_playlist returned it

selvars == <<filters, flavors, selected>>

procvars == <<mode, io, constant_pattern, playlist, item, overall_status, streams,
              sidx, latest_result, output_file, exists, attempts, outcomes, diag, ret,
              urls, existed, saved, resolved>>

\* What the steps outside try_all_streams and get_urls leave alone.
histvars == <<urls, existed, saved, resolved>>

vars == <<filters, flavors, selected, pc, mode, io, constant_pattern, playlist,
          item, overall_status, streams, sidx, latest_result, output_file, exists,
          attempts, outcomes, diag, ret, urls, existed, saved, resolved>>

\* The values of the loop's locals before the loop has set them.
LocalsUnset ==
    /\ item = 0
    /\ overall_status = RD_SUCCESS
    /\ streams = NoneStreams
    /\ sidx = 0
    /\ latest_result = RD_FAILED
    /\ output_file = NoFile
    /\ exists = {}
    /\ attempts = <<>>
    /\ outcomes = <<>>
    /\ diag = <<>>
    /\ ret = Internal(RD_SUCCESS)
    /\ urls = <<>>
    /\ existed = {}
    /\ saved = FALSE

(***************************************************************************)
(* Inputs of the selection: flavor lists and filters.                      *)
(***************************************************************************)
Backends == {"a", "b"}

Heights == {None} \cup (1..MaxHeight)

Bitrates == {None} \cup (1..MaxBitrate)

\* The stream lists of an input flavor: one valid stream on one backend.
StreamLists == {<<Stream(be, TRUE, NoMsg)>> : be \in Backends}

InputFlavors == {Flavor(h, b, ss) : h \in Heights, b \in Bitrates, ss \in StreamLists}

FlavorLists == UNION {[1..n -> InputFlavors] : n \in 0..MaxFlavors}

EnabledBackendLists == {<<"a">>, <<"b", "a">>}

FilterSets ==
    {Filters(mh, mb, be) : mh \in {None} \cup (0..MaxHeight),
                           mb \in {None} \cup (0..MaxBitrate),
                           be \in EnabledBackendLists}

(***************************************************************************)
(* SpecSelect: one call of select_flavor on any input.                     *)
(***************************************************************************)
InitSelect ==
    /\ filters \in FilterSets
    /\ flavors \in FlavorLists
    /\ selected = NoFlavor
    /\ pc = "select_flavor"
    /\ mode = "save"
    /\ io = [outputfilename |-> FALSE, overwrite |-> FALSE, slicing_active |-> FALSE]
    /\ constant_pattern = FALSE
    /\ playlist = <<>>
    /\ resolved = playlist
    /\ LocalsUnset

SelectFlavor ==
    /\ pc = "select_flavor"
    /\ selected' = select_flavor(flavors, filters)
    /\ pc' = "selected"
    /\ UNCHANGED <<filters, flavors>>
    /\ UNCHANGED procvars

NextSelect == SelectFlavor

SpecSelect == InitSelect /\ [][NextSelect]_vars

(***************************************************************************)
(* Inputs of a run: the clips the extractor may return and the filters.    *)
(***************************************************************************)
ValidStream(be) == Stream(be, TRUE, NoMsg)

InvalidStream(be, text) == Stream(be, FALSE, Msg(text, {}))

\* The flavor lists extract_clip may return for a playlist item: no flavor;
\* one stream on backend c; invalid streams only; two flavors with valid and
\* invalid streams; one flavor with a valid stream and two invalid ones.
ProcClipList ==
    << <<>>,
       <<Flavor(1, 1, <<ValidStream("c")>>)>>,
       <<Flavor(1, 1, <<InvalidStream("a", "expired"), InvalidStream("b", "drm")>>)>>,
       <<Flavor(2, 2, <<ValidStream("a"), InvalidStream("b", "drm"), ValidStream("c")>>),
         Flavor(1, 1, <<ValidStream("a"), InvalidStream("b", "expired")>>)>>,
       <<Flavor(1, 2, <<ValidStream("c"), InvalidStream("b", "drm"),
                        InvalidStream("a", "expired")>>)>> >>

ProcFilterSets ==
    { Filters(None, None, <<"a", "b", "c">>),
      Filters(1, None, <<"b", "a">>) }

IOContexts == [outputfilename : BOOLEAN, overwrite : BOOLEAN, slicing_active : BOOLEAN]

(***************************************************************************)
(* download_clips and pipe: the two entries into process.                  *)
(***************************************************************************)
Init ==
    /\ filters \in ProcFilterSets
    /\ flavors = <<>>
    /\ selected = NoFlavor
    /\ pc = "start"
    /\ mode \in {"save", "pipe"}
    /\ io \in IOContexts
    /\ constant_pattern \in BOOLEAN
    /\ playlist \in {[i \in 1..n |-> i] : n \in 0..MaxPlaylist}
    /\ resolved = playlist
    /\ LocalsUnset

\* download_clips: more than one clip and one output name: RD_FAILED at once.
DownloadClipsRejected ==
    /\ pc = "start" /\ mode = "save"
    /\ Len(playlist) > 1
    /\ io.outputfilename \/ constant_pattern
    /\ diag' = Append(diag,
                 IF io.outputfilename
                 THEN Diag("playlist with multiple clips, but only one output file", NoMsg)
                 ELSE Diag("playlist with multiple clips, but --output-template is a literal", NoMsg))
    /\ ret' = Internal(RD_FAILED)
    /\ pc' = "done"
    /\ UNCHANGED <<selvars, histvars, mode, io, constant_pattern, playlist, item, overall_status,
                   streams, sidx, latest_result, output_file, exists, attempts, outcomes>>

\* A variant of DownloadClipsProceeds: the guard is not consulted.
DownloadClipsUnguarded ==
    /\ pc = "start" /\ mode = "save"
    /\ pc' = "process"
    /\ UNCHANGED <<selvars, procvars>>

\* download_clips: otherwise process(playlist, download, needs_retry, filters).
DownloadClipsProceeds ==
    /\ pc = "start" /\ mode = "save"
    /\ ~(Len(playlist) > 1 /\ (io.outputfilename \/ constant_pattern))
    /\ pc' = "process"
    /\ UNCHANGED <<selvars, procvars>>

\* A variant of Pipe: the whole playlist is handed to process.
PipeWholePlaylist ==
    /\ pc = "start" /\ mode = "pipe"
    /\ playlist' = playlist
    /\ pc' = "process"
    /\ UNCHANGED <<selvars, histvars, mode, io, constant_pattern, item, overall_status, streams,
                   sidx, latest_result, output_file, exists, attempts, outcomes, diag, ret>>

\* pipe: playlist[:1], then process(playlist, pipe_clip, needs_retry, filters).
Pipe ==
    /\ pc = "start" /\ mode = "pipe"
    /\ playlist' = SubSeq(playlist, 1, IF Len(playlist) < 1 THEN Len(playlist) ELSE 1)
    /\ pc' = "process"
    /\ UNCHANGED <<selvars, histvars, mode, io, constant_pattern, item, overall_status, streams,
                   sidx, latest_result, output_file, exists, attempts, outcomes, diag, ret>>

(***************************************************************************)
(* process                                                                 *)
(***************************************************************************)
\* A variant of ProcessEmpty: the empty playlist reported as a failure.
ProcessEmptyFails ==
    /\ pc = "process"
    /\ Len(playlist) = 0
    /\ diag' = Append(diag, Diag("No streams found", NoMsg))
    /\ ret' = Internal(RD_FAILED)
    /\ pc' = "done"
    /\ UNCHANGED <<selvars, histvars, mode, io, constant_pattern, playlist, item, overall_status,
                   streams, sidx, latest_result, output_file, exists, attempts, outcomes>>

\* len(playlist) == 0: 'No streams found', return RD_SUCCESS.
ProcessEmpty ==
    /\ pc = "process"
    /\ Len(playlist) = 0
    /\ diag' = Append(diag, Diag("No streams found", NoMsg))
    /\ ret' = Internal(RD_SUCCESS)
    /\ pc' = "done"
    /\ UNCHANGED <<selvars, histvars, mode, io, constant_pattern, playlist, item, overall_status,
                   streams, sidx, latest_result, output_file, exists, attempts, outcomes>>

\* overall_status = RD_SUCCESS and the loop starts at the first item.
ProcessBegin ==
    /\ pc = "process"
    /\ Len(playlist) # 0
    /\ overall_status' = RD_SUCCESS
    /\ item' = 1
    /\ pc' = "loop"
    /\ UNCHANGED <<selvars, histvars, mode, io, constant_pattern, playlist, streams, sidx,
                   latest_result, output_file, exists, attempts, outcomes, diag, ret>>

\* Python's truth value of select_streams's result: None and [] are false.
Truthy(st) == ~st.isNone /\ st.list # <<>>

AllInvalid(st) == \A i \in 1..Len(st.list) : ~is_valid(st.list[i])

\* The loop body up to the branch: extract_clip and select_streams.
Extracted(clip) ==
    /\ pc = "loop"
    /\ item <= Len(playlist)
    /\ flavors' = clip
    /\ selected' = select_flavor(clip, filters)
    /\ streams' = select_streams(clip, filters)
    /\ attempts' = <<>>
    /\ UNCHANGED <<filters, mode, io, constant_pattern, playlist, ret, urls, resolved>>

\* not streams: 'No stream found', overall_status = RD_FAILED.
ItemNoStream ==
    \E k \in 1..Len(ProcClipList) :
      LET clip == ProcClipList[k]
      IN
        /\ Extracted(clip)
        /\ ~Truthy(select_streams(clip, filters))
        /\ diag' = Append(diag, Diag("No stream found", NoMsg))
        /\ overall_status' = RD_FAILED
        /\ outcomes' = Append(outcomes, Outcome("no_stream", RD_FAILED))
        /\ item' = item + 1
        /\ pc' = "loop"
        /\ UNCHANGED <<sidx, latest_result, output_file, exists,
                          existed, saved>>

\* print_geo_warning(clip): one more line when the clip's region is Finland
\* or None and the geolocation service places the caller abroad.
print_geo_warning(region_finland_or_none, located_in_finland) ==
    IF region_finland_or_none /\ ~located_in_finland
    THEN <<Diag("This clip is only available in Finland", NoMsg)>>
    ELSE <<>>

\* A variant of ItemUnsupported: the item is logged and left uncounted.
ItemUnsupportedUncounted ==
    \E k \in 1..Len(ProcClipList), region_finland_or_none, located_in_finland \in BOOLEAN :
        LET clip == ProcClipList[k]
            st == select_streams(clip, filters)
        IN /\ Extracted(clip)
           /\ Truthy(st)
           /\ AllInvalid(st)
           /\ diag' = Append(diag, Diag("Unsupported stream", st.list[1].error_message))
                        \o print_geo_warning(region_finland_or_none, located_in_finland)
           /\ outcomes' = Append(outcomes, Outcome("unsupported", RD_FAILED))
           /\ item' = item + 1
           /\ pc' = "loop"
           /\ UNCHANGED <<overall_status, sidx, latest_result, output_file, exists,
                          existed, saved>>

\* every stream invalid: 'Unsupported stream: <first message>', then
\* print_geo_warning(clip), and overall_status = RD_FAILED.
ItemUnsupported ==
    \E k \in 1..Len(ProcClipList), region_finland_or_none, located_in_finland \in BOOLEAN :
        LET clip == ProcClipList[k]
            st == select_streams(clip, filters)
        IN /\ Extracted(clip)
           /\ Truthy(st)
           /\ AllInvalid(st)
           /\ diag' = Append(diag, Diag("Unsupported stream", st.list[1].error_message))
                        \o print_geo_warning(region_finland_or_none, located_in_finland)
           /\ overall_status' = RD_FAILED
           /\ outcomes' = Append(outcomes, Outcome("unsupported", RD_FAILED))
           /\ item' = item + 1
           /\ pc' = "loop"
           /\ UNCHANGED <<sidx, latest_result, output_file, exists,
                          existed, saved>>

\* otherwise try_all_streams is entered: latest_result = RD_FAILED,
\* output_file = None. Each output path of the item may or may not exist
\* already.
ItemTry ==
    \E k \in 1..Len(ProcClipList), on_disk \in SUBSET Extensions :
        LET clip == ProcClipList[k]
            st == select_streams(clip, filters)
        IN /\ Extracted(clip)
           /\ Truthy(st)
           /\ ~AllInvalid(st)
           /\ latest_result' = RD_FAILED
           /\ output_file' = NoFile
           /\ sidx' = 1
           /\ exists' = on_disk
           /\ existed' = on_disk
           /\ saved' = FALSE
           /\ pc' = "try"
           /\ UNCHANGED <<item, overall_status, outcomes, diag>>

(***************************************************************************)
(* try_all_streams                                                         *)
(***************************************************************************)
\* remove_retry_file(filename): the file is removed when it is there, unless
\* os.remove raises OSError; the result is the paths that exist afterwards.
remove_retry_file(filename, there, oserror) ==
    IF filename # NoFile /\ filename[2] \in there /\ ~oserror
    THEN there \ {filename[2]}
    ELSE there

\* should_skip_downloading: here is os.path.exists(outputfile).
should_skip_downloading(here, full_stream_already_downloaded) ==
    \/ (~io.overwrite /\ here)
    \/ (~io.slicing_active /\ full_stream_already_downloaded)

\* downloader.save_stream(outputfile, clip, io): the backend returns any
\* result code and leaves the output file there or not.
save_stream == ResultCodes \X BOOLEAN

\* postprocess(postprocess_command, videofile, []): a command, when one is
\* set, is run on the file and may leave it, remove it or move it away.
postprocess(postprocess_command, here) ==
    IF postprocess_command THEN BOOLEAN ELSE {here}

\* if not downloader: the lines logged before the bare RD_FAILED is returned.
not_supported(m) ==
    IF m = "save"
    THEN <<Diag("Downloading the stream is not yet supported", NoMsg),
           Diag("Try --showurl", NoMsg)>>
    ELSE <<Diag("Downloading the stream is not yet supported", NoMsg)>>

\* download(clip, downloader) from generate_output_name on, the name being
\* outputfile: the download skipped, or save_stream called and, after
\* RD_SUCCESS, postprocess.
download_to(outputfile, there) ==
    LET here == outputfile[2] \in there
        put(b) == IF b THEN there \cup {outputfile[2]} ELSE there \ {outputfile[2]}
    IN {<<RD_SUCCESS, outputfile, there, "skipped", <<>> >> :
            fsad \in {b \in BOOLEAN : should_skip_downloading(here, b)}}
       \cup {<<x[1], outputfile, put(x[2]), "save_stream", <<>> >> :
               x \in {y \in ResultCodes \X BOOLEAN :
                        \E fsad, postprocess_command \in BOOLEAN, sv \in save_stream :
                            /\ ~should_skip_downloading(here, fsad)
                            /\ y[1] = sv[1]
                            /\ y[2] \in (IF sv[1] = RD_SUCCESS
                                          THEN postprocess(postprocess_command, sv[2])
                                          ELSE {sv[2]})}}

\* The results download(clip, downloader) can have when the paths in `there`
\* exist: <<result, output file, paths existing afterwards, what was done,
\* lines logged>>. The downloader is false and the bare RD_FAILED is
\* returned, or there is no output name and (RD_FAILED, None) is returned, or
\* the name is made of the downloader's extension.
download(there) ==
    {<<RD_FAILED, NoFile, there, "not_downloader", not_supported("save")>>}
    \cup {<<RD_FAILED, NoFile, there, "no_output_name", <<>> >>}
    \cup UNION {download_to(OutputPath(item, extension), there) :
                  extension \in Extensions}

\* The results pipe_clip(clip, downloader) can have: the bare RD_FAILED of a
\* false downloader, or (downloader.pipe(io), None).
pipe_clip(there) ==
    {<<RD_FAILED, NoFile, there, "not_downloader", not_supported("pipe")>>}
    \cup {<<r, NoFile, there, "pipe_stream", <<>> >> : r \in ResultCodes}

streamfunc(there) == IF mode = "save" THEN download(there) ELSE pipe_clip(there)

\* A variant of calls_for_stream: the earlier output file is not removed.
calls_without_removal(earlier_file, i, res, file) == <<TransferEvent(i, res, file)>>

\* The calls try_all_streams makes for one valid stream, in order:
\* remove_retry_file(output_file) if output_file is set, then streamfunc.
calls_for_stream(earlier_file, i, res, file) ==
    (IF earlier_file # NoFile THEN <<RemoveEvent(earlier_file)>> ELSE <<>>)
    \o <<TransferEvent(i, res, file)>>

\* An invalid stream is passed over.
TrySkipInvalid ==
    /\ pc = "try"
    /\ sidx <= Len(streams.list)
    /\ ~is_valid(streams.list[sidx])
    /\ sidx' = sidx + 1
    /\ UNCHANGED <<selvars, histvars, pc, mode, io, constant_pattern, playlist, item,
                   overall_status, streams, latest_result, output_file, exists,
                   attempts, outcomes, diag, ret>>

\* A valid stream: the earlier attempt's output file is removed, streamfunc
\* is called, and the result either asks for the next stream or is returned.
\* A bare result code does not unpack into (latest_result, output_file):
\* the assignment raises TypeError, which nothing up to the caller catches.
TryStream ==
    /\ pc = "try"
    /\ sidx <= Len(streams.list)
    /\ is_valid(streams.list[sidx])
    /\ \E oserror \in BOOLEAN :
        LET cleaned == IF output_file # NoFile
                       THEN remove_retry_file(output_file, exists, oserror)
                       ELSE exists
        IN \E r \in streamfunc(cleaned) :
            /\ exists' = r[3]
            /\ diag' = diag \o r[5]
            /\ attempts' = attempts \o calls_for_stream(output_file, sidx, r[1], r[2])
            /\ IF r[4] = "not_downloader"
               THEN /\ pc' = "raised"
                    /\ ret' = Raised("TypeError")
                    /\ UNCHANGED <<latest_result, output_file, saved, sidx>>
               ELSE /\ latest_result' = r[1]
                    /\ output_file' = r[2]
                    /\ saved' = (saved \/ (r[4] = "save_stream" /\ r[1] = RD_SUCCESS))
                    /\ ret' = ret
                    /\ IF needs_retry(mode, r[1])
                       THEN sidx' = sidx + 1 /\ pc' = "try"
                       ELSE sidx' = sidx /\ pc' = "return"
    /\ UNCHANGED <<selvars, mode, io, constant_pattern, playlist, item, overall_status,
                   streams, outcomes, urls, existed, resolved>>

\* The streams are exhausted: latest_result is returned.
TryExhausted ==
    /\ pc = "try"
    /\ sidx > Len(streams.list)
    /\ pc' = "return"
    /\ UNCHANGED <<selvars, procvars>>

\* A variant of aggregate: RD_FAILED is not kept.
aggregate_latest_failure(overall, res) ==
    IF res # RD_SUCCESS THEN res ELSE overall

\* A variant of aggregate: a later RD_SUCCESS is taken as well.
aggregate_latest(overall, res) ==
    IF overall # RD_FAILED THEN res ELSE overall

\* process takes the result: it replaces overall_status unless it is
\* RD_SUCCESS or overall_status is RD_FAILED already.
aggregate(overall, res) ==
    IF res # RD_SUCCESS /\ overall # RD_FAILED THEN res ELSE overall

ItemDone ==
    /\ pc = "return"
    /\ overall_status' = aggregate(overall_status, latest_result)
    /\ outcomes' = Append(outcomes, Outcome("tried", latest_result))
    /\ item' = item + 1
    /\ pc' = "loop"
    \* try_all_streams has returned: its locals are gone
    /\ sidx' = 0
    /\ latest_result' = RD_FAILED
    /\ output_file' = NoFile
    /\ exists' = {}
    /\ attempts' = <<>>
    /\ existed' = {}
    /\ saved' = FALSE
    /\ UNCHANGED <<selvars, mode, io, constant_pattern, playlist, streams, diag, ret, urls,
                   resolved>>

\* The loop is over: to_external_rd_code(overall_status) is returned.
ProcessReturn ==
    /\ pc = "loop"
    /\ item > Len(playlist)
    /\ ret' = to_external_rd_code(overall_status)
    /\ pc' = "done"
    /\ UNCHANGED <<selvars, histvars, mode, io, constant_pattern, playlist, item, overall_status,
                   streams, sidx, latest_result, output_file, exists, attempts,
                   outcomes, diag>>

Next ==
    \/ DownloadClipsRejected
    \/ DownloadClipsProceeds
    \/ Pipe
    \/ ProcessEmpty
    \/ ProcessBegin
    \/ ItemNoStream
    \/ ItemUnsupported
    \/ ItemTry
    \/ TrySkipInvalid
    \/ TryStream
    \/ TryExhausted
    \/ ItemDone
    \/ ProcessReturn

Spec == Init /\ [][Next]_vars

(***************************************************************************)
(* FairProcess: one call of process, in either mode, on any playlist.      *)
(***************************************************************************)
InitProcess ==
    /\ filters = Filters(None, None, <<"a", "b", "c">>)
    /\ flavors = <<>>
    /\ selected = NoFlavor
    /\ pc = "process"
    /\ mode \in {"save", "pipe"}
    /\ io \in {ctx \in IOContexts : ~ctx.outputfilename /\ ~ctx.slicing_active}
    /\ constant_pattern = FALSE
    /\ playlist \in {[i \in 1..n |-> i] : n \in 0..MaxPlaylist}
    /\ resolved = playlist
    /\ LocalsUnset

NextProcess ==
    \/ ProcessEmpty
    \/ ProcessBegin
    \/ ItemNoStream
    \/ ItemUnsupported
    \/ ItemTry
    \/ TrySkipInvalid
    \/ TryStream
    \/ TryExhausted
    \/ ItemDone
    \/ ProcessReturn

\* The calls made return: extract_clip, select_streams and streamfunc run
\* to completion and the interpreter goes on to the next statement.
FairProcess == InitProcess /\ [][NextProcess]_vars /\ WF_vars(NextProcess)

(***************************************************************************)
(* get_urls: the generator of the URLs of a page's clips.                  *)
(***************************************************************************)
\* stream_url(): the URL the stream is fetched from, one per stream handle.
stream_url(s) == [url |-> s.name]

\* A variant of first_valid: the first stream, valid or not.
first_stream(list) == list[1]

\* next(s for s in streams if s.is_valid())
first_valid(list) ==
    list[CHOOSE i \in 1..Len(list) :
            is_valid(list[i]) /\ \A j \in 1..(i - 1) : ~is_valid(list[j])]

\* The flavor lists of the clips extractor.extract may return: those of
\* ProcClipList and a clip whose best flavor has an invalid stream first.
UrlClipList ==
    ProcClipList \o
    << <<Flavor(1, 1, <<ValidStream("a")>>),
         Flavor(2, 2, <<InvalidStream("a", "expired"), ValidStream("b")>>)>> >>

InitUrls ==
    /\ filters \in ProcFilterSets
    /\ flavors = <<>>
    /\ selected = NoFlavor
    /\ pc = "get_urls"
    /\ mode = "urls"
    /\ io = [outputfilename |-> FALSE, overwrite |-> FALSE, slicing_active |-> FALSE]
    /\ constant_pattern = FALSE
    /\ playlist \in {[i \in 1..n |-> i] : n \in 0..MaxPlaylist}
    /\ resolved = playlist
    /\ LocalsUnset

\* clips = self.extractor.extract(base_url, filters.latest_only)
GetUrlsExtract ==
    /\ pc = "get_urls"
    /\ item' = 1
    /\ pc' = "urls_loop"
    /\ UNCHANGED <<selvars, mode, io, constant_pattern, playlist, overall_status, streams,
                   sidx, latest_result, output_file, exists, attempts, outcomes, diag,
                   ret, histvars>>

\* One turn of the loop: select_streams, and the URL of the first valid
\* stream is yielded if there is a valid stream.
GetUrlsClip ==
    \E k \in 1..Len(UrlClipList) :
        LET clip == UrlClipList[k]
            st == select_streams(clip, filters)
        IN /\ pc = "urls_loop"
           /\ item <= Len(playlist)
           /\ flavors' = clip
           /\ selected' = select_flavor(clip, filters)
           /\ streams' = st
           /\ urls' = IF Truthy(st) /\ ~AllInvalid(st)
                      THEN Append(urls, stream_url(first_valid(st.list)))
                      ELSE urls
           /\ item' = item + 1
           /\ UNCHANGED <<filters, pc, mode, io, constant_pattern, playlist, overall_status,
                          sidx, latest_result, output_file, exists, attempts, outcomes,
                          diag, ret, existed, saved, resolved>>

\* The clips are exhausted: the generator ends.
GetUrlsEnd ==
    /\ pc = "urls_loop"
    /\ item > Len(playlist)
    /\ pc' = "done"
    /\ UNCHANGED <<selvars, procvars>>

NextUrls ==
    \/ GetUrlsExtract
    \/ GetUrlsClip
    \/ GetUrlsEnd

SpecUrls == InitUrls /\ [][NextUrls]_vars

(***************************************************************************)
(* SpecStreams: one call of select_streams on flavors whose stream lists   *)
(* mix backends and validity.                                              *)
(***************************************************************************)
\* The stream lists a flavor of this specification may have.
StreamPool ==
    << <<>>,
       <<ValidStream("a")>>,
       <<ValidStream("a"), ValidStream("b")>>,
       <<ValidStream("c"), ValidStream("a"), ValidStream("b")>>,
       <<ValidStream("c")>>,
       <<InvalidStream("c", "expired")>>,
       <<InvalidStream("b", "drm"), InvalidStream("c", "expired")>>,
       <<InvalidStream("a", "expired"), ValidStream("b")>>,
       <<ValidStream("c"), InvalidStream("b", "drm")>> >>

PoolFlavors == {Flavor(h, h, StreamPool[k]) : h \in 1..MaxHeight, k \in 1..Len(StreamPool)}

PoolFlavorLists == UNION {[1..n -> PoolFlavors] : n \in 0..MaxFlavors}

StreamFilterSets ==
    {Filters(mh, None, be) : mh \in {None, 1}, be \in EnabledBackendLists}

InitStreams ==
    /\ filters \in StreamFilterSets
    /\ flavors \in PoolFlavorLists
    /\ selected = NoFlavor
    /\ pc = "select_streams"
    /\ mode = "save"
    /\ io = [outputfilename |-> FALSE, overwrite |-> FALSE, slicing_active |-> FALSE]
    /\ constant_pattern = FALSE
    /\ playlist = <<>>
    /\ resolved = playlist
    /\ LocalsUnset

SelectStreams ==
    /\ pc = "select_streams"
    /\ selected' = select_flavor(flavors, filters)
    /\ streams' = select_streams(flavors, filters)
    /\ flavors' = flavors_after_select(flavors, filters)
    /\ pc' = "streams_selected"
    /\ UNCHANGED <<filters, mode, io, constant_pattern, playlist, item, overall_status,
                   sidx, latest_result, output_file, exists, attempts, outcomes, diag,
                   ret, histvars>>

NextStreams == SelectStreams

SpecStreams == InitStreams /\ [][NextStreams]_vars

(***************************************************************************)
(* SpecTry: one call of try_all_streams on any list of candidates.         *)
(***************************************************************************)
\* The candidate lists: up to MaxStreams streams, each valid or not.
TryStreamLists ==
    UNION {{[i \in 1..n |-> IF v[i] THEN ValidStream("a") ELSE InvalidStream("a", "expired")] :
              v \in [1..n -> BOOLEAN]} : n \in 0..MaxStreams}

InitTry ==
    /\ filters = Filters(None, None, <<"a">>)
    /\ flavors = <<>>
    /\ selected = NoFlavor
    /\ pc = "try"
    /\ mode \in {"save", "pipe"}
    /\ io \in IOContexts
    /\ constant_pattern = FALSE
    /\ playlist = <<1>>
    /\ resolved = playlist
    /\ item = 1
    /\ overall_status = RD_SUCCESS
    /\ \E list \in TryStreamLists : streams = [isNone |-> FALSE, list |-> list]
    /\ sidx = 1
    /\ latest_result = RD_FAILED
    /\ output_file = NoFile
    /\ exists \in SUBSET Extensions
    /\ existed = exists
    /\ saved = FALSE
    /\ attempts = <<>>
    /\ outcomes = <<>>
    /\ diag = <<>>
    /\ ret = Internal(RD_SUCCESS)
    /\ urls = <<>>

NextTry ==
    \/ TrySkipInvalid
    \/ TryStream
    \/ TryExhausted

SpecTry == InitTry /\ [][NextTry]_vars

(***************************************************************************)
(* Properties of the selection, stated on the call's input and result.     *)
(***************************************************************************)
\* An optional integer with absent counted as 0.
Val(x) == IF x = None THEN 0 ELSE x

\* The input flavors that have at least one stream on an enabled backend.
EnabledIdx ==
    {i \in 1..Len(flavors) :
        \E j \in 1..Len(flavors[i].streams) :
            \E k \in 1..Len(filters.enabled_backends) :
                flavors[i].streams[j].name = filters.enabled_backends[k]}

\* The result is one of the enabled-backend input flavors.
SelectedIsEnabledInput ==
    /\ selected.kind = "flavor"
    /\ \E i \in EnabledIdx :
        flavors[i].height = selected.height /\ flavors[i].bitrate = selected.bitrate

Returned == pc = "selected" /\ EnabledIdx # {}

\* C1: with maxheight and maxbitrate both unset, select_flavor returns an
\* enabled-backend flavor whose bitrate (absent = 0) is the maximum over all
\* enabled-backend flavors.
C1_HighestBitrate ==
    (Returned /\ filters.maxheight = None /\ filters.maxbitrate = None)
    => /\ SelectedIsEnabledInput
       /\ \A i \in EnabledIdx : Val(flavors[i].bitrate) <= Val(selected.bitrate)

\* C1 happens: no ceiling, two enabled-backend flavors of different bitrate,
\* the higher one first in the list, and it is the one returned.
C1_Witness ==
    /\ Returned /\ filters.maxheight = None /\ filters.maxbitrate = None
    /\ EnabledIdx = {1, 2}
    /\ Val(flavors[2].bitrate) < Val(flavors[1].bitrate)
    /\ selected.bitrate = flavors[1].bitrate

\* C2: with maxheight = H (maxbitrate set or not): if some enabled-backend
\* flavor has height <= H (absent = 0) the returned flavor has height <= H;
\* if none has, the returned flavor has the smallest height of the
\* enabled-backend flavors.
C2_MaxHeight ==
    (Returned /\ filters.maxheight # None)
    => /\ SelectedIsEnabledInput
       /\ IF \E i \in EnabledIdx : Val(flavors[i].height) <= filters.maxheight
          THEN Val(selected.height) <= filters.maxheight
          ELSE \A i \in EnabledIdx : Val(selected.height) <= Val(flavors[i].height)

\* C2 happens in its hardest case: both ceilings set, a flavor within the
\* height ceiling but none within both, a flavor above the height ceiling,
\* and the returned flavor within the height ceiling.
C2_Witness ==
    /\ Returned /\ filters.maxheight # None /\ filters.maxbitrate # None
    /\ \E i \in EnabledIdx : Val(flavors[i].height) <= filters.maxheight
    /\ \E i \in EnabledIdx : Val(flavors[i].height) > filters.maxheight
    /\ \A i \in EnabledIdx : ~(/\ Val(flavors[i].height) <= filters.maxheight
                                /\ Val(flavors[i].bitrate) <= filters.maxbitrate)
    /\ Val(selected.height) <= filters.maxheight

\* The returned flavor has the lowest / the highest bitrate among the
\* enabled-backend flavors of its own height.
LowestBitrateAtHeight ==
    \A i \in EnabledIdx :
        Val(flavors[i].height) = Val(selected.height)
        => Val(selected.bitrate) <= Val(flavors[i].bitrate)

HighestBitrateAtHeight ==
    \A i \in EnabledIdx :
        Val(flavors[i].height) = Val(selected.height)
        => Val(selected.bitrate) >= Val(flavors[i].bitrate)

OnlyMaxHeight == filters.maxheight # None /\ filters.maxbitrate = None

\* C3 as claimed: whenever only maxheight is set, the returned flavor has the
\* lowest bitrate among the enabled-backend flavors of the same height.
C3_AsClaimed == (Returned /\ OnlyMaxHeight) => LowestBitrateAtHeight

\* C3 amended: with only maxheight = H set, the returned flavor has the lowest
\* bitrate among the enabled-backend flavors of its height when some
\* enabled-backend flavor has height <= H, and the highest bitrate among them
\* when none has (the fallback order is the reverse of the whole key).
C3_TieBreak ==
    (Returned /\ OnlyMaxHeight)
    => /\ SelectedIsEnabledInput
       /\ IF \E i \in EnabledIdx : Val(flavors[i].height) <= filters.maxheight
          THEN LowestBitrateAtHeight
          ELSE HighestBitrateAtHeight

\* C3 happens: only maxheight set, a flavor within the ceiling, and another
\* enabled-backend flavor of the returned height with a higher bitrate.
C3_Witness ==
    /\ Returned /\ OnlyMaxHeight
    /\ \E i \in EnabledIdx : Val(flavors[i].height) <= filters.maxheight
    /\ \E i \in EnabledIdx :
        /\ Val(flavors[i].height) = Val(selected.height)
        /\ Val(flavors[i].bitrate) > Val(selected.bitrate)

\* C4: with only maxbitrate = B set: if some enabled-backend flavor has
\* bitrate <= B the returned flavor has the greatest bitrate not above B;
\* if none has, it has the smallest bitrate of the enabled-backend flavors.
C4_MaxBitrate ==
    (Returned /\ filters.maxheight = None /\ filters.maxbitrate # None)
    => /\ SelectedIsEnabledInput
       /\ IF \E i \in EnabledIdx : Val(flavors[i].bitrate) <= filters.maxbitrate
          THEN /\ Val(selected.bitrate) <= filters.maxbitrate
               /\ \A i \in EnabledIdx :
                    Val(flavors[i].bitrate) <= filters.maxbitrate
                    => Val(flavors[i].bitrate) <= Val(selected.bitrate)
          ELSE \A i \in EnabledIdx : Val(selected.bitrate) <= Val(flavors[i].bitrate)

\* C4 happens in the fallback: only maxbitrate set, every enabled-backend
\* flavor above it, two different bitrates among them.
C4_Witness ==
    /\ Returned /\ filters.maxheight = None /\ filters.maxbitrate # None
    /\ \A i \in EnabledIdx : Val(flavors[i].bitrate) > filters.maxbitrate
    /\ \E i \in EnabledIdx : Val(flavors[i].bitrate) > Val(selected.bitrate)

\* The enabled-backend flavors within both ceilings.
WithinBoth ==
    {i \in EnabledIdx : /\ Val(flavors[i].height) <= filters.maxheight
                        /\ Val(flavors[i].bitrate) <= filters.maxbitrate}

\* C5: with both ceilings set and some enabled-backend flavor within both,
\* the returned flavor is within both and its (height, bitrate) pair is the
\* lexicographically greatest among the flavors within both.
C5_BothCeilings ==
    (Returned /\ filters.maxheight # None /\ filters.maxbitrate # None
              /\ WithinBoth # {})
    => /\ SelectedIsEnabledInput
       /\ Val(selected.height) <= filters.maxheight
       /\ Val(selected.bitrate) <= filters.maxbitrate
       /\ \A i \in WithinBoth :
            \/ Val(flavors[i].height) < Val(selected.height)
            \/ /\ Val(flavors[i].height) = Val(selected.height)
               /\ Val(flavors[i].bitrate) <= Val(selected.bitrate)

\* C5 happens: both ceilings set, two flavors within both, the returned one
\* the higher of the two although its bitrate is the lower.
C5_Witness ==
    /\ Returned /\ filters.maxheight # None /\ filters.maxbitrate # None
    /\ \E i \in WithinBoth :
        /\ Val(flavors[i].height) < Val(selected.height)
        /\ Val(flavors[i].bitrate) > Val(selected.bitrate)

(***************************************************************************)
(* Properties of try_all_streams, stated on the calls it made.             *)
(***************************************************************************)
\* The streamfunc calls made for the current item, in order.
Transfers == SelectSeq(attempts, LAMBDA e : e.ev = "streamfunc")

\* The indices of the valid candidates of the current item, in list order.
ValidIdx == SelectSeq([i \in 1..Len(streams.list) |-> i],
                      LAMBDA i : streams.list[i].valid)

\* The mode's retryable results: in save mode anything but success and
\* incomplete, in pipe mode a subprocess that could not be executed.
Retryable(res) ==
    IF mode = "save" THEN res \in {RD_FAILED, RD_SUBPROCESS_EXECUTE_FAILED}
    ELSE res = RD_SUBPROCESS_EXECUTE_FAILED

\* try_all_streams is running, has returned, or was left by an exception.
InTryAllStreams == pc = "try" \/ pc = "return" \/ pc = "raised"

\* C6: try_all_streams calls the transfer function once per valid candidate
\* in list order, only while every earlier call returned a retryable result;
\* after the first non-retryable result no further call is made and that
\* result is returned: k retryable results and then a non-retryable one make
\* exactly k+1 calls.
C6_AttemptsUntilTerminal ==
    InTryAllStreams
    => /\ Len(Transfers) <= Len(ValidIdx)
       /\ \A j \in 1..Len(Transfers) : Transfers[j].stream = ValidIdx[j]
       /\ \A j \in 1..(Len(Transfers) - 1) : Retryable(Transfers[j].res)
       /\ (Len(Transfers) > 0 /\ ~Retryable(Transfers[Len(Transfers)].res))
          => /\ pc = "return"
             /\ latest_result = Transfers[Len(Transfers)].res

\* The run that breaks C6: in pipe mode the first valid candidate's
\* downloader is false, pipe_clip returns RD_FAILED, which is not retryable
\* there, and the call is left by TypeError instead of returning it.
C6_BareFailureNotReturned ==
    /\ mode = "pipe" /\ pc = "raised"
    /\ Len(Transfers) = 1
    /\ Transfers[1].res = RD_FAILED /\ ~Retryable(Transfers[1].res)
    /\ ret = Raised("TypeError")

\* C7: every streamfunc call that follows an attempt which returned an output
\* file is preceded, after that attempt, by remove_retry_file on that file.
C7_CleanupBeforeNextAttempt ==
    \A p \in 1..Len(attempts), q \in 1..Len(attempts) :
        (/\ p < q
         /\ attempts[p].ev = "streamfunc" /\ attempts[q].ev = "streamfunc"
         /\ attempts[p].file # NoFile)
        => \E m \in (p + 1)..(q - 1) :
              attempts[m].ev = "remove_retry_file" /\ attempts[m].file = attempts[p].file

\* C7 happens: an attempt returned a retryable result and an output file, the
\* file was handed to remove_retry_file, and the next attempt was made.
C7_Witness ==
    /\ Len(attempts) >= 3
    /\ attempts[1].ev = "streamfunc" /\ attempts[1].file # NoFile
    /\ Retryable(attempts[1].res)
    /\ attempts[2].ev = "remove_retry_file"
    /\ attempts[3].ev = "streamfunc"

(***************************************************************************)
(* Properties of process, stated on the outcomes of the items.             *)
(***************************************************************************)
\* The fold of a sequence of item outcomes: success at the start; an outcome
\* that is not success replaces the status unless the status is failed.
RECURSIVE FoldStatus(_)
FoldStatus(os) ==
    IF os = <<>> THEN RD_SUCCESS
    ELSE LET before == FoldStatus(SubSeq(os, 1, Len(os) - 1))
             last == os[Len(os)].res
         IN IF before = RD_FAILED THEN RD_FAILED
            ELSE IF last # RD_SUCCESS THEN last
            ELSE before

ProcessReturned == pc = "done" /\ ret.external

\* C8: the status process computes is the fold of the item outcomes, after
\* every item and at the return, before the external mapping.
C8_StatusIsFold ==
    /\ overall_status = FoldStatus(outcomes)
    /\ ProcessReturned => ret.code = FoldStatus(outcomes)

\* C8 happens: [failed, incomplete] gives failed.
C8_Witness ==
    /\ ProcessReturned
    /\ Len(outcomes) = 2
    /\ outcomes[1].res = RD_FAILED /\ outcomes[2].res = RD_INCOMPLETE
    /\ ret.code = RD_FAILED

\* Every item so far had a usable candidate list and came out a success.
AllItemsSucceeded ==
    \A i \in 1..Len(outcomes) : outcomes[i].kind = "tried" /\ outcomes[i].res = RD_SUCCESS

\* C9: the overall status is success exactly when every item handled had a
\* usable candidate list and its outcome was success, after every item and
\* at the return, where every item of the playlist has been handled.
C9_NoFailureLost ==
    /\ (overall_status = RD_SUCCESS) <=> AllItemsSucceeded
    /\ ProcessReturned
       => /\ Len(outcomes) = Len(playlist)
          /\ (ret.code = RD_SUCCESS) <=> AllItemsSucceeded

\* C9 happens: [success, incomplete, success] returns incomplete.
C9_Witness ==
    /\ ProcessReturned
    /\ Len(outcomes) = 3
    /\ outcomes[1].res = RD_SUCCESS /\ outcomes[2].res = RD_INCOMPLETE
    /\ outcomes[3].res = RD_SUCCESS /\ outcomes[3].kind = "tried"
    /\ ret.code = RD_INCOMPLETE

\* C10: with an empty playlist no item is extracted, no flavor is selected
\* and no transfer is made, and process returns RD_SUCCESS after logging
\* 'No streams found'.
C10_EmptyPlaylist ==
    Len(playlist) = 0
    => /\ outcomes = <<>> /\ attempts = <<>> /\ item = 0
       /\ flavors = <<>> /\ selected = NoFlavor /\ streams = NoneStreams
       /\ (pc = "start" \/ pc = "process" \/ pc = "done")
       /\ pc = "done" => /\ ret = Internal(RD_SUCCESS)
                         /\ diag = <<Diag("No streams found", NoMsg)>>

\* C10 happens: process has returned for an empty playlist.
C10_Witness ==
    /\ pc = "done" /\ Len(playlist) = 0
    /\ ret.code = RD_SUCCESS
    /\ diag # <<>>

(***************************************************************************)
(* Properties of download_clips.                                           *)
(***************************************************************************)
\* The condition of the guard of download_clips.
OneNameForSeveralClips ==
    mode = "save" /\ Len(playlist) > 1 /\ (io.outputfilename \/ constant_pattern)

\* The lines the guard of download_clips logs.
IsGuardLine(d) ==
    \/ d = Diag("playlist with multiple clips, but only one output file", NoMsg)
    \/ d = Diag("playlist with multiple clips, but --output-template is a literal", NoMsg)

\* C11: download_clips with more than one item and a fixed output filename or
\* a literal template returns RD_FAILED before the loop: no item is extracted,
\* no flavor is selected and no transfer is made; with at most one item the
\* guard never fires and process is what returns.
C11_GuardBeforeLoop ==
    /\ OneNameForSeveralClips
       => /\ pc = "start" \/ pc = "done"
          /\ item = 0 /\ flavors = <<>> /\ selected = NoFlavor /\ streams = NoneStreams
          /\ attempts = <<>> /\ outcomes = <<>>
          /\ pc = "done" => ret = Internal(RD_FAILED) /\ Len(diag) = 1 /\ IsGuardLine(diag[1])
    /\ (mode = "save" /\ Len(playlist) <= 1)
       => /\ \A i \in 1..Len(diag) : ~IsGuardLine(diag[i])
          /\ pc = "done" => IF Len(playlist) = 0 THEN ret = Internal(RD_SUCCESS)
                                                   ELSE ret.external /\ Len(outcomes) = 1

\* C11 happens: three clips and one output name, RD_FAILED and nothing done.
C11_Witness ==
    /\ pc = "done" /\ mode = "save"
    /\ Len(playlist) = 3 /\ constant_pattern /\ ~io.outputfilename
    /\ ret = Internal(RD_FAILED)
    /\ outcomes = <<>> /\ attempts = <<>>

(***************************************************************************)
(* The retry predicate of each mode.                                       *)
(***************************************************************************)
\* After the j-th streamfunc call of the item the loop of try_all_streams
\* went on to look for the next candidate: another call was made, or the
\* loop is still running, or it ran through the rest of the list.
WentOn(j) ==
    \/ j < Len(Transfers)
    \/ pc = "try"
    \/ sidx > Len(streams.list)

\* C12: in save mode the loop goes on after a result exactly when the result
\* is neither RD_SUCCESS nor RD_INCOMPLETE (an incomplete download ends the
\* item); in pipe mode exactly when it is RD_SUBPROCESS_EXECUTE_FAILED (a
\* plain RD_FAILED ends the item).
C12_RetryByMode ==
    InTryAllStreams
    => \A j \in 1..Len(Transfers) :
          LET res == Transfers[j].res
          IN /\ mode = "save"
                => (WentOn(j) <=> (res # RD_SUCCESS /\ res # RD_INCOMPLETE))
             /\ mode = "pipe"
                => (WentOn(j) <=> res = RD_SUBPROCESS_EXECUTE_FAILED)

\* The run that breaks C12: in save mode a candidate whose downloader is
\* false gives RD_FAILED and the next valid candidate is not tried.
C12_FailureNotRetried ==
    /\ mode = "save" /\ pc = "raised"
    /\ Len(Transfers) = 1 /\ Len(ValidIdx) >= 2
    /\ Transfers[1].res = RD_FAILED
    /\ ~WentOn(1)

(***************************************************************************)
(* Items without a usable candidate.                                       *)
(***************************************************************************)
\* A candidate list with nothing to try: none, empty, or invalid streams
\* only.
NothingToTry(st) ==
    st.isNone \/ \A i \in 1..Len(st.list) : ~st.list[i].valid

\* The line process logs for such a list.
NothingToTryLine(st) ==
    IF st.isNone \/ st.list = <<>>
    THEN Diag("No stream found", NoMsg)
    ELSE Diag("Unsupported stream", st.list[1].error_message)

\* C13: when select_streams gives an item no candidates, or invalid ones
\* only, process sets the overall status to RD_FAILED, makes no transfer for
\* the item, logs 'No stream found' or the first candidate's error message,
\* and goes on with the next item; after the error message the warning
\* of print_geo_warning may follow.
C13_NothingToTry ==
    [][(pc = "loop" /\ item <= Len(playlist) /\ NothingToTry(streams'))
       => /\ overall_status' = RD_FAILED
          /\ attempts' = <<>>
          /\ IF streams'.isNone \/ streams'.list = <<>>
             THEN diag' = Append(diag, NothingToTryLine(streams'))
             ELSE \E located_in_finland \in BOOLEAN :
                     diag' = Append(diag, NothingToTryLine(streams'))
                               \o print_geo_warning(TRUE, located_in_finland)
          /\ Len(outcomes') = Len(outcomes) + 1
          /\ outcomes'[Len(outcomes')].res = RD_FAILED
          /\ item' = item + 1
          /\ pc' = "loop"]_vars

\* C13 happens: after a successful item, an item whose candidates are all
\* invalid; the status is failed and the first candidate's message is logged.
C13_Witness ==
    /\ pc = "loop"
    /\ Len(outcomes) = 2
    /\ outcomes[1].res = RD_SUCCESS
    /\ outcomes[2].kind = "unsupported"
    /\ overall_status = RD_FAILED
    /\ attempts = <<>>
    /\ Len(streams.list) = 2
    /\ streams.list[1].error_message # streams.list[2].error_message
    /\ diag = <<Diag("Unsupported stream", streams.list[1].error_message)>>

(***************************************************************************)
(* Properties of get_urls.                                                 *)
(***************************************************************************)
\* The candidates of a select_streams result, none counted as no candidate.
Candidates(st) == IF st.isNone THEN <<>> ELSE st.list

\* The positions of the valid candidates.
ValidAt(list) == {i \in 1..Len(list) : list[i].valid}

\* s is a stream of an enabled-backend flavor of fs that no other such
\* flavor exceeds in bitrate.
OfHighestBitrateFlavor(s, fs, enabled) ==
    \E i \in enabled :
        /\ \A j \in enabled : Val(fs[j].bitrate) <= Val(fs[i].bitrate)
        /\ \E j \in 1..Len(fs[i].streams) : fs[i].streams[j] = s

\* C14: get_urls makes no transfer; for a clip whose candidate list has a
\* valid stream it yields the URL of the first valid stream in candidate
\* order (without resolution limits, a stream of the highest-bitrate
\* flavor), and for a clip without a valid stream it yields nothing.
C14_UrlOfFirstValid ==
    [][(pc = "urls_loop" /\ item <= Len(playlist))
       => LET cand == Candidates(streams')
              valid == ValidAt(cand)
          IN /\ attempts' = <<>> /\ outcomes' = <<>> /\ ~saved'
             /\ IF valid = {}
                THEN urls' = urls
                ELSE LET f == CHOOSE i \in valid : \A j \in valid : i <= j
                     IN /\ urls' = Append(urls, [url |-> cand[f].name])
                        /\ (filters.maxheight = None /\ filters.maxbitrate = None)
                           => OfHighestBitrateFlavor(cand[f], flavors', EnabledIdx')]_vars

\* C14 happens: three clips, one of them without a valid stream; the last
\* clip's first candidate is invalid and the URL of its second is yielded.
C14_Witness ==
    /\ mode = "urls" /\ pc = "done"
    /\ Len(playlist) = 3 /\ Len(urls) = 2
    /\ Len(streams.list) = 2
    /\ ~streams.list[1].valid
    /\ urls[2] = [url |-> streams.list[2].name]
    /\ attempts = <<>>

(***************************************************************************)
(* Properties of select_streams, stated on the call's input and result.    *)
(***************************************************************************)
StreamsSelected == pc = "streams_selected"

\* The position of a backend in filters.enabled_backends, 0 if not enabled.
BackendPos(name) ==
    IF \E k \in 1..Len(filters.enabled_backends) : filters.enabled_backends[k] = name
    THEN CHOOSE k \in 1..Len(filters.enabled_backends) : filters.enabled_backends[k] = name
    ELSE 0

\* How many times the stream s occurs in the list.
Occurrences(s, list) == Cardinality({p \in 1..Len(list) : list[p] = s})

\* The list holds the enabled-backend streams of the flavor fl, each as often
\* as fl has it and nothing else, in the order of their backends' positions.
EnabledStreamsOf(fl, list) ==
    /\ \A p \in 1..Len(list) : BackendPos(list[p].name) > 0
    /\ \A p \in 1..Len(list) : Occurrences(list[p], list) = Occurrences(list[p], fl.streams)
    /\ \A q \in 1..Len(fl.streams) :
          BackendPos(fl.streams[q].name) > 0
          => Occurrences(fl.streams[q], list) = Occurrences(fl.streams[q], fl.streams)
    /\ \A p \in 1..Len(list), q \in 1..Len(list) :
          p < q => BackendPos(list[p].name) <= BackendPos(list[q].name)

\* C15: when some flavor has a stream on an enabled backend, the list
\* select_streams returns holds only enabled-backend streams, holds every
\* such stream of the chosen flavor, and is ordered by the position of the
\* stream's backend in enabled_backends, not by the flavor's own order.
C15_CandidatesByBackendOrder ==
    (StreamsSelected /\ EnabledIdx # {})
    => /\ ~streams.isNone
       /\ selected.kind = "flavor"
       /\ streams.list = selected.streams
       /\ \E i \in EnabledIdx :
             /\ flavors[i].height = selected.height
             /\ flavors[i].bitrate = selected.bitrate
             /\ EnabledStreamsOf(flavors[i], streams.list)

\* C15 happens: the flavor's streams are on c, a, b and the enabled backends
\* are b, a: the candidates are the streams on b and a, in that order.
C15_Witness ==
    /\ StreamsSelected
    /\ Len(flavors) = 1 /\ Len(flavors[1].streams) = 3
    /\ flavors[1].streams[1].name = "c"
    /\ flavors[1].streams[2].name = "a"
    /\ flavors[1].streams[3].name = "b"
    /\ Len(streams.list) = 2
    /\ streams.list[1].name = "b" /\ streams.list[2].name = "a"

\* All streams of all input flavors, in flavor order and stream order.
RECURSIVE AllStreamsFrom(_)
AllStreamsFrom(i) ==
    IF i > Len(flavors) THEN <<>> ELSE flavors[i].streams \o AllStreamsFrom(i + 1)

\* The message the failure flavor is to carry: the backends of the valid
\* streams if there is a valid stream, else the first invalid stream's
\* message, else 'Stream not found'.
ExpectedFailure ==
    LET all == AllStreamsFrom(1)
        valid == {p \in 1..Len(all) : all[p].valid}
    IN IF valid # {}
       THEN Msg("Required backend not enabled", {all[p].name : p \in valid})
       ELSE IF all # <<>> THEN all[1].error_message
       ELSE Msg("Stream not found", {})

\* C18: for a non-empty flavor list without any stream on an enabled backend
\* the selection is one failure flavor; its message names the backends of
\* the valid streams if there is a valid stream, else it is the first
\* invalid stream's error message in flavor order, else 'Stream not found'.
\* For an empty flavor list the selection is none, not a failure flavor.
C18_FailureMessage ==
    StreamsSelected
    => /\ (flavors # <<>> /\ EnabledIdx = {})
          => /\ selected.kind = "failed"
             /\ Len(selected.streams) = 1
             /\ ~selected.streams[1].valid
             /\ selected.streams[1].error_message = ExpectedFailure
             /\ streams.list = selected.streams
       /\ flavors = <<>> => selected = NoFlavor /\ streams = NoneStreams

\* C18 happens: the first flavor has no stream, the second two invalid ones
\* on backends that are not enabled; the message is that of the first.
C18_Witness ==
    /\ StreamsSelected
    /\ Len(flavors) = 2
    /\ flavors[1].streams = <<>>
    /\ Len(flavors[2].streams) = 2
    /\ flavors[2].streams[1].error_message # flavors[2].streams[2].error_message
    /\ selected.kind = "failed"
    /\ selected.streams[1].error_message = flavors[2].streams[1].error_message

\* C19: select_streams (and select_flavor within it) leaves its inputs as
\* they were: the caller's flavor list has the same flavors in the same
\* order, each with its own streams in their own order, because the backend
\* filter assigns to copies; and the filters are unchanged.
C19_InputsUnchanged ==
    [][pc = "select_streams" => (flavors' = flavors /\ filters' = filters)]_vars

\* C19 happens: the call returned a candidate list that differs from the
\* chosen flavor's streams, which are those of the only input flavor.
C19_Witness ==
    /\ StreamsSelected
    /\ Len(flavors) = 1
    /\ selected.kind = "flavor"
    /\ selected.streams # flavors[1].streams
    /\ streams.list = selected.streams

(***************************************************************************)
(* Properties of try_all_streams on any candidate list.                    *)
(***************************************************************************)
\* C16: try_all_streams never calls the transfer function on an invalid
\* candidate and at most once on a valid one; when every valid candidate
\* returned a retryable result it returns the result of the last call made;
\* without a valid candidate it makes no call and returns RD_FAILED.
C16_ValidCandidatesOnly ==
    InTryAllStreams
    => /\ \A j \in 1..Len(Transfers) : streams.list[Transfers[j].stream].valid
       /\ \A j \in 1..Len(Transfers), k \in 1..Len(Transfers) :
             j < k => Transfers[j].stream < Transfers[k].stream
       /\ (pc # "try" /\ \A j \in 1..Len(Transfers) : Retryable(Transfers[j].res))
          => /\ pc = "return"
             /\ Len(Transfers) = Len(ValidIdx)
             /\ Len(Transfers) > 0 => latest_result = Transfers[Len(Transfers)].res
       /\ ValidIdx = <<>>
          => /\ Transfers = <<>>
             /\ pc = "return" => latest_result = RD_FAILED

\* The run that breaks C16: in save mode the only valid candidate's
\* downloader is false; its result RD_FAILED is retryable and is the last
\* one, and the call is left by TypeError instead of returning it.
C16_LastResultNotReturned ==
    /\ mode = "save" /\ pc = "raised"
    /\ Len(ValidIdx) = 1 /\ Len(Transfers) = 1
    /\ Retryable(Transfers[1].res)
    /\ ret = Raised("TypeError")

(***************************************************************************)
(* The loop of process runs through the playlist.                          *)
(***************************************************************************)
\* C17: no outcome of an item ends the loop of process early: for a
\* non-empty playlist every item is handled once and in playlist order (the
\* k-th outcome is recorded while the loop is at item k, and the loop moves
\* to item k+1), trying an item's candidates ends with a result for the
\* loop, and process eventually returns with an outcome for every item and
\* the aggregated status.
C17_EveryItemHandled ==
    /\ [][/\ outcomes' # outcomes
             => /\ Len(outcomes') = Len(outcomes) + 1
                /\ SubSeq(outcomes', 1, Len(outcomes)) = outcomes
                /\ Len(outcomes') = item
                /\ item <= Len(playlist)
                /\ item' = item + 1
          /\ pc = "try" => (pc' = "try" \/ pc' = "return")]_vars
    /\ (pc = "process" /\ Len(playlist) > 0)
         ~> (/\ pc = "done" /\ ret.external
             /\ Len(outcomes) = Len(playlist)
             /\ ret.code = FoldStatus(outcomes))

\* The run that breaks C17: the first of three items is being tried, a
\* candidate's downloader is false, and TypeError ends process with the two
\* other items never extracted.
C17_LoopAborted ==
    /\ pc = "raised" /\ ret = Raised("TypeError")
    /\ Len(playlist) = 3 /\ item = 1 /\ outcomes = <<>>

(***************************************************************************)
(* What a success of download stands for.                                  *)
(***************************************************************************)
\* C20: in save mode with overwrite disabled, an item's result is
\* RD_SUCCESS only if a save_stream call for the item returned RD_SUCCESS or
\* the output file existed before the item's first attempt; a partial file
\* left by an earlier attempt never makes a later attempt report success
\* through the skip of should_skip_downloading.
C20_SuccessNeedsTransfer ==
    (mode = "save" /\ ~io.overwrite /\ pc = "return" /\ latest_result = RD_SUCCESS)
    => (saved \/ output_file[2] \in existed)

\* The run that breaks C20: the first attempt failed and left a file,
\* remove_retry_file was called on it and the file stayed, and the second
\* attempt returned RD_SUCCESS with no save_stream call having succeeded.
C20_PartialFileTakenAsDownloaded ==
    /\ mode = "save" /\ ~io.overwrite /\ pc = "return"
    /\ existed = {} /\ ~saved
    /\ Len(attempts) = 3
    /\ attempts[1].ev = "streamfunc" /\ attempts[1].res = RD_FAILED
    /\ attempts[2].ev = "remove_retry_file" /\ attempts[2].file = attempts[1].file
    /\ attempts[3].ev = "streamfunc" /\ attempts[3].res = RD_SUCCESS
    /\ attempts[3].file = attempts[1].file
    /\ latest_result = RD_SUCCESS

(***************************************************************************)
(* Properties of pipe.                                                     *)
(***************************************************************************)
\* The first item of the resolved playlist alone, or nothing.
FirstItemOnly == IF resolved = <<>> THEN <<>> ELSE <<resolved[1]>>

\* C21: pipe handles at most one playlist item: whatever the length of the
\* resolved playlist, process is given its first item alone, the loop is
\* never at a later item, transfers are made for the first item only, the
\* returned status is that of the first item, and the guard of
\* download_clips on several clips with one output name is not applied.
C21_PipeFirstItemOnly ==
    (mode = "pipe" /\ pc # "start")
    => /\ playlist = FirstItemOnly
       /\ Len(outcomes) <= 1
       /\ (pc = "try" \/ pc = "return" \/ attempts # <<>>)
          => (item = 1 /\ playlist[item] = resolved[1] /\ outcomes = <<>>)
       /\ (pc = "loop" /\ outcomes = <<>>) => item = 1
       /\ \A i \in 1..Len(diag) : ~IsGuardLine(diag[i])
       /\ pc = "done"
          => IF resolved = <<>>
             THEN ret = Internal(RD_SUCCESS) /\ outcomes = <<>>
             ELSE /\ ret.external
                  /\ Len(outcomes) = 1
                  /\ ret.code = outcomes[1].res

\* C21 happens: three clips resolved and one output name given, which
\* download_clips would reject; pipe has handled the first clip alone and
\* returned its status.
C21_Witness ==
    /\ mode = "pipe" /\ pc = "done"
    /\ Len(resolved) = 3 /\ io.outputfilename
    /\ Len(playlist) = 1
    /\ Len(outcomes) = 1 /\ outcomes[1].kind = "tried"
    /\ outcomes[1].res = RD_INCOMPLETE
    /\ ret.external /\ ret.code = RD_INCOMPLETE

====
